---- MODULE Spec2Model ----
(***************************************************************************)
(* Midjourney toolbox: the prompt analysis engine (analyzePrompt), the     *)
(* parameter editor (updateParameter, handleAddParameter) and the          *)
(* translation life cycle (handleTranslate) of src/src/App.tsx.            *)
(*                                                                         *)
(* A string is a sequence of characters; a character is a one-character    *)
(* TLA+ string.  The regular expressions of the source are operators over  *)
(* such sequences that follow the matching order of the JavaScript engine  *)
(* (leftmost match, greedy and lazy quantifiers, backtracking).            *)
(***************************************************************************)
EXTENDS Integers, Sequences, FiniteSets, TLC

Min(S) == CHOOSE x \in S : \A y \in S : x <= y
Max(S) == CHOOSE x \in S : \A y \in S : x >= y
\* The element of a one-element set.  {f(x) : x \in {e}} computes e once and
\* names it x, as a const declaration does.
Only(S) == CHOOSE x \in S : TRUE

(***************************************************************************)
(* Character classes of the regular expressions.                           *)
(***************************************************************************)
Digits == {"0", "1", "2", "3", "4", "5", "6", "7", "8", "9"}
LowerLetters ==
    {"a", "b", "c", "d", "e", "f", "g", "h", "i", "j", "k", "l", "m",
     "n", "o", "p", "q", "r", "s", "t", "u", "v", "w", "x", "y", "z"}
UpperLetters ==
    {"A", "B", "C", "D", "E", "F", "G", "H", "I", "J", "K", "L", "M",
     "N", "O", "P", "Q", "R", "S", "T", "U", "V", "W", "X", "Y", "Z"}

\* \d
IsDigit(c) == c \in Digits
\* [a-zA-Z0-9]
IsAlnum(c) == c \in LowerLetters \cup UpperLetters \cup Digits
\* \w
IsWord(c) == IsAlnum(c) \/ c = "_"
\* \s
IsSpace(c) == c \in {" ", "\t", "\n", "\r"}
\* [^\s]
NotSpace(c) == ~IsSpace(c)
\* [:\s]
IsSep(c) == c = ":" \/ IsSpace(c)
\* what "." does not match
IsLineTerminator(c) == c \in {"\n", "\r"}
\* [^\s<>"']
IsUrlChar(c) == ~IsSpace(c) /\ c \notin {"<", ">", "\"", "'"}
\* [^()]
NotParen(c) == c \notin {"(", ")"}

\* Membership of c in the character class named cls.
InClass(cls, c) ==
    CASE cls = "digit" -> IsDigit(c)
      [] cls = "alnum" -> IsAlnum(c)
      [] cls = "space" -> IsSpace(c)
      [] cls = "notspace" -> NotSpace(c)
      [] cls = "sep" -> IsSep(c)
      [] cls = "urlchar" -> IsUrlChar(c)
      [] cls = "notparen" -> NotParen(c)

\* The first index k >= i at which the run of cls-characters starting at i ends
\* (Len(s) + 1 when it runs to the end): where a greedy cls* started at i stops.
RunEnd(cls, s, i) ==
    LET stops == {k \in i..Len(s) : ~InClass(cls, s[k])}
    IN  IF stops = {} THEN Len(s) + 1 ELSE Min(stops)

\* Whether t occurs in s at index i.
StartsWithAt(s, i, t) ==
    /\ i >= 1
    /\ i + Len(t) - 1 <= Len(s)
    /\ SubSeq(s, i, i + Len(t) - 1) = t

\* String.prototype.trim
Trim(s) ==
    LET keep == {k \in 1..Len(s) : ~IsSpace(s[k])}
    IN  IF keep = {} THEN <<>> ELSE SubSeq(s, Min(keep), Max(keep))

\* The case-insensitive flag "i" of imageUrlRegex: letters compare in lower case.
ToLower(c) ==
    CASE c = "A" -> "a" [] c = "B" -> "b" [] c = "C" -> "c" [] c = "D" -> "d"
      [] c = "E" -> "e" [] c = "F" -> "f" [] c = "G" -> "g" [] c = "H" -> "h"
      [] c = "I" -> "i" [] c = "J" -> "j" [] c = "K" -> "k" [] c = "L" -> "l"
      [] c = "M" -> "m" [] c = "N" -> "n" [] c = "O" -> "o" [] c = "P" -> "p"
      [] c = "Q" -> "q" [] c = "R" -> "r" [] c = "S" -> "s" [] c = "T" -> "t"
      [] c = "U" -> "u" [] c = "V" -> "v" [] c = "W" -> "w" [] c = "X" -> "x"
      [] c = "Y" -> "y" [] c = "Z" -> "z" [] OTHER -> c

LowerStr(s) == [k \in 1..Len(s) |-> ToLower(s[k])]

\* Whether t (given in lower case) occurs in s at index i, ignoring case.
StartsWithAtI(s, i, t) ==
    /\ i >= 1
    /\ i + Len(t) - 1 <= Len(s)
    /\ LowerStr(SubSeq(s, i, i + Len(t) - 1)) = t

(***************************************************************************)
(* The Parameter Catalog: PARAMETER_INFO.  Only the fields the code reads   *)
(* when it resolves a default value are kept: type, values, default, min.  *)
(* An optional field that the source leaves out has its has* flag FALSE.   *)
(***************************************************************************)
k_ar == <<"a", "r">>
k_chaos == <<"c", "h", "a", "o", "s">>
k_quality == <<"q", "u", "a", "l", "i", "t", "y">>
k_seed == <<"s", "e", "e", "d">>
k_stop == <<"s", "t", "o", "p">>
k_style == <<"s", "t", "y", "l", "e">>
k_stylize == <<"s", "t", "y", "l", "i", "z", "e">>
k_tile == <<"t", "i", "l", "e">>
k_version == <<"v", "e", "r", "s", "i", "o", "n">>
k_weird == <<"w", "e", "i", "r", "d">>
k_iw == <<"i", "w">>
k_v == <<"v">>
k_s == <<"s">>

ParameterInfo(type, hasValues, values, hasDefault, default, hasMin, min) ==
    [type |-> type, hasValues |-> hasValues, values |-> values,
     hasDefault |-> hasDefault, default |-> default, hasMin |-> hasMin, min |-> min]

VersionValues == <<<<"5", ".", "0">>, <<"5", ".", "1">>, <<"5", ".", "2">>, <<"6", ".", "0">>>>

PARAMETER_INFO ==
    (k_ar :> ParameterInfo("text", TRUE,
                <<<<"1", ":", "1">>, <<"1", "6", ":", "9">>, <<"9", ":", "1", "6">>, <<"4", ":", "3">>, <<"3", ":", "4">>, <<"2", ":", "1">>, <<"1", ":", "2">>>>,
                FALSE, <<>>, FALSE, 0))
 @@ (k_chaos :> ParameterInfo("number", FALSE, <<>>, FALSE, <<>>, TRUE, 0))
 @@ (k_quality :> ParameterInfo("select", TRUE, <<<<".", "2", "5">>, <<".", "5">>, <<"1">>>>,
                TRUE, <<"1">>, FALSE, 0))
 @@ (k_seed :> ParameterInfo("number", FALSE, <<>>, FALSE, <<>>, FALSE, 0))
 @@ (k_stop :> ParameterInfo("number", FALSE, <<>>, FALSE, <<>>, TRUE, 10))
 @@ (k_style :> ParameterInfo("text", TRUE, <<<<"r", "a", "w">>>>, FALSE, <<>>, FALSE, 0))
 @@ (k_stylize :> ParameterInfo("number", FALSE, <<>>, TRUE, <<"1", "0", "0">>, TRUE, 0))
 @@ (k_tile :> ParameterInfo("text", FALSE, <<>>, FALSE, <<>>, FALSE, 0))
 @@ (k_version :> ParameterInfo("text", TRUE, VersionValues, FALSE, <<>>, FALSE, 0))
 @@ (k_weird :> ParameterInfo("number", FALSE, <<>>, FALSE, <<>>, TRUE, 0))
 @@ (k_iw :> ParameterInfo("number", FALSE, <<>>, TRUE, <<"1">>, TRUE, 0))
 @@ (k_v :> ParameterInfo("select", TRUE, VersionValues, TRUE, <<"6", ".", "0">>, FALSE, 0))
 @@ (k_s :> ParameterInfo("number", FALSE, <<>>, TRUE, <<"1", "0", "0">>, TRUE, 0))

CatalogKeys == DOMAIN PARAMETER_INFO

\* String(n) of a natural number: its decimal digits.
DigitChar(d) ==
    CASE d = 0 -> "0" [] d = 1 -> "1" [] d = 2 -> "2" [] d = 3 -> "3" [] d = 4 -> "4"
      [] d = 5 -> "5" [] d = 6 -> "6" [] d = 7 -> "7" [] d = 8 -> "8" [] d = 9 -> "9"

RECURSIVE NatToString(_)
NatToString(n) ==
    IF n < 10 THEN <<DigitChar(n)>>
    ELSE NatToString(n \div 10) \o <<DigitChar(n % 10)>>

\* A resolution that prefers the minimum of a number to its default.
DefaultValue_MinFirst(key) ==
    IF key \notin CatalogKeys THEN <<"1">>
    ELSE LET info == PARAMETER_INFO[key]
         IN  IF info.type = "number" /\ info.hasMin THEN NatToString(info.min)
             ELSE IF info.hasDefault /\ info.default # <<>> THEN info.default
             ELSE IF info.type = "number" THEN <<"1">>
             ELSE (IF info.hasValues THEN info.values[1] ELSE <<"1">>)

\* The default value both editors resolve: info.default || (type === 'number' ?
\* (min !== undefined ? String(min) : '1') : (values ? values[0] : '1')).
\* A key that PARAMETER_INFO lacks has every field undefined (the ?. chain).
DefaultValue(key) ==
    IF key \notin CatalogKeys THEN <<"1">>
    ELSE LET info == PARAMETER_INFO[key]
         IN  IF info.hasDefault /\ info.default # <<>> THEN info.default
             ELSE IF info.type = "number"
                  THEN (IF info.hasMin THEN NatToString(info.min) ELSE <<"1">>)
                  ELSE (IF info.hasValues THEN info.values[1] ELSE <<"1">>)

(***************************************************************************)
(* imageUrlRegex, flags gi:                                                *)
(*   https?:// , then either the fewest URL characters [^\s<>"']+? that    *)
(*   are followed by "." and one of jpg|jpeg|gif|png|webp|bmp|svg, or      *)
(*   s.mj.run/ and URL characters; then an optional "?" query of URL       *)
(*   characters.                                                           *)
(***************************************************************************)
ImageExtensions == <<<<"j", "p", "g">>, <<"j", "p", "e", "g">>, <<"g", "i", "f">>, <<"p", "n", "g">>, <<"w", "e", "b", "p">>, <<"b", "m", "p">>, <<"s", "v", "g">>>>

\* Length of the first alternative of (?:jpg|jpeg|...) that matches at k, 0 if none.
ExtensionLenAt(s, k) ==
    LET hits == {n \in 1..Len(ImageExtensions) : StartsWithAtI(s, k, ImageExtensions[n])}
    IN  IF hits = {} THEN 0 ELSE Len(ImageExtensions[Min(hits)])

\* The optional query group ("?" and URL characters) tried at e: the index after it.
QueryEnd(s, e) ==
    IF e <= Len(s) /\ s[e] = "?" THEN RunEnd("urlchar", s, e + 1) ELSE e

\* Index after the match of imageUrlRegex that starts at i, 0 when there is none.
ImageUrlMatchEnd(s, i) ==
    IF ~StartsWithAtI(s, i, <<"h", "t", "t", "p">>) THEN 0
    ELSE LET j == IF StartsWithAtI(s, i + 4, <<"s">>) THEN i + 5 ELSE i + 4
         IN  IF ~StartsWithAt(s, j, <<":", "/", "/">>) THEN 0
             ELSE LET p == j + 3
                      run == RunEnd("urlchar", s, p)
                      \* the lazy [^\s<>"']+? takes the fewest characters m >= 1
                      \* after which "." and an extension follow
                      ms == {m \in 1..(run - p) :
                                /\ p + m <= Len(s)
                                /\ s[p + m] = "."
                                /\ ExtensionLenAt(s, p + m + 1) > 0}
                  IN  IF ms # {}
                      THEN LET m == Min(ms)
                           IN  QueryEnd(s, p + m + 1 + ExtensionLenAt(s, p + m + 1))
                      ELSE IF /\ StartsWithAtI(s, p, <<"s", ".", "m", "j", ".", "r", "u", "n", "/">>)
                              /\ RunEnd("urlchar", s, p + 9) > p + 9
                           THEN QueryEnd(s, RunEnd("urlchar", s, p + 9))
                           ELSE 0

(***************************************************************************)
(* paramRegex, flag g:  --([a-zA-Z0-9]+)(?:[:\s]+([^\s]+))?                *)
(* The greedy [:\s]+ gives characters back until a non-space character     *)
(* follows it, and a colon is such a character.                            *)
(***************************************************************************)
\* Where the optional group (?:[:\s]+[^\s]+)? tried at index a leaves the match:
\* [matched, valueStart, end].
ValueGroupAt(s, a) ==
    LET sepEnd == RunEnd("sep", s, a)
        ks == {k \in (a + 1)..sepEnd : k <= Len(s) /\ ~IsSpace(s[k])}
    IN  IF ks = {} THEN [matched |-> FALSE, valueStart |-> a, end |-> a]
        ELSE [matched |-> TRUE, valueStart |-> Max(ks),
              end |-> RunEnd("notspace", s, Max(ks))]

\* The match of paramRegex that starts at i: [ok, end, name, value].
ParamMatchAt(s, i) ==
    IF ~(StartsWithAt(s, i, <<"-", "-">>) /\ i + 2 <= Len(s) /\ IsAlnum(s[i + 2]))
    THEN [ok |-> FALSE, end |-> 0, name |-> <<>>, value |-> <<>>]
    ELSE LET nameEnd == RunEnd("alnum", s, i + 2)
             g == ValueGroupAt(s, nameEnd)
         IN  [ok |-> TRUE, end |-> g.end,
              name |-> SubSeq(s, i + 2, nameEnd - 1),
              \* match[2] || ''
              value |-> IF g.matched THEN SubSeq(s, g.valueStart, g.end - 1) ELSE <<>>]

\* Array.from(text.matchAll(paramRegex)).map(...), scanning from index i.
RECURSIVE ExtractParameters(_, _)
ExtractParameters(s, i) ==
    IF i > Len(s) THEN <<>>
    ELSE Only({IF starts = {} THEN <<>>
               ELSE Only({<<[name |-> m.name, value |-> m.value, enabled |-> TRUE]>>
                             \o ExtractParameters(s, m.end)
                          : m \in {ParamMatchAt(s, Min(starts))}})
               : starts \in {{k \in i..Len(s) : ParamMatchAt(s, k).ok}}})

(***************************************************************************)
(* The patterns that description isolation removes with the g flag.        *)
(***************************************************************************)
\* Index of the first ")" at or after i, 0 when there is none.
FirstCloseParen(s, i) ==
    LET cs == {k \in i..Len(s) : s[k] = ")"}
    IN  IF cs = {} THEN 0 ELSE Min(cs)

\* @[^()]*(?:\([^)]*\))?
MentionMatchEnd(s, i) ==
    IF ~(i <= Len(s) /\ s[i] = "@") THEN 0
    ELSE LET e == RunEnd("notparen", s, i + 1)
         IN  IF e <= Len(s) /\ s[e] = "(" /\ FirstCloseParen(s, e + 1) > 0
             THEN FirstCloseParen(s, e + 1) + 1
             ELSE e

\* \d+:\d+
RatioMatchEnd(s, i) ==
    IF ~(i <= Len(s) /\ IsDigit(s[i])) THEN 0
    ELSE LET e == RunEnd("digit", s, i)
         IN  IF e + 1 <= Len(s) /\ s[e] = ":" /\ IsDigit(s[e + 1])
             THEN RunEnd("digit", s, e + 1)
             ELSE 0

\* \b at index k, between s[k - 1] and s[k]
WordBoundaryAt(s, k) ==
    (k >= 2 /\ k - 1 <= Len(s) /\ IsWord(s[k - 1])) # (k >= 1 /\ k <= Len(s) /\ IsWord(s[k]))

\* \b\d+(\.\d+)?\b : the fraction is kept only if a boundary follows it
NumberMatchEnd(s, i) ==
    IF ~(i <= Len(s) /\ IsDigit(s[i]) /\ WordBoundaryAt(s, i)) THEN 0
    ELSE LET e == RunEnd("digit", s, i)
             f == IF e + 1 <= Len(s) /\ s[e] = "." /\ IsDigit(s[e + 1])
                  THEN RunEnd("digit", s, e + 1) ELSE 0
         IN  IF f > 0 /\ WordBoundaryAt(s, f) THEN f
             ELSE IF WordBoundaryAt(s, e) THEN e
             ELSE 0

\* \([^)]*\)
ParenMatchEnd(s, i) ==
    IF i <= Len(s) /\ s[i] = "(" /\ FirstCloseParen(s, i + 1) > 0
    THEN FirstCloseParen(s, i + 1) + 1
    ELSE 0

\* Index after the match of the pattern named rx that starts at i, 0 when none.
MatchEnd(rx, s, i) ==
    CASE rx = "imageUrl" -> ImageUrlMatchEnd(s, i)
      [] rx = "mention" -> MentionMatchEnd(s, i)
      [] rx = "ratio" -> RatioMatchEnd(s, i)
      [] rx = "number" -> NumberMatchEnd(s, i)
      [] rx = "paren" -> ParenMatchEnd(s, i)

\* s.replace(rx, '') with the g flag, from index i on: the text up to the
\* leftmost match is kept, and after a match the scan goes on at its end.
RECURSIVE RemoveAll(_, _, _)
RemoveAll(rx, s, i) ==
    IF i > Len(s) THEN <<>>
    ELSE Only({IF starts = {} THEN SubSeq(s, i, Len(s))
               ELSE SubSeq(s, i, Min(starts) - 1)
                       \o RemoveAll(rx, s, MatchEnd(rx, s, Min(starts)))
               : starts \in {{k \in i..Len(s) : MatchEnd(rx, s, k) > 0}}})

\* s.match(rx) || [] with the g flag, from index i on: the matched substrings.
RECURSIVE MatchAll(_, _, _)
MatchAll(rx, s, i) ==
    IF i > Len(s) THEN <<>>
    ELSE Only({IF starts = {} THEN <<>>
               ELSE <<SubSeq(s, Min(starts), MatchEnd(rx, s, Min(starts)) - 1)>>
                       \o MatchAll(rx, s, MatchEnd(rx, s, Min(starts)))
               : starts \in {{k \in i..Len(s) : MatchEnd(rx, s, k) > 0}}})

\* Array.from(new Set(xs)): first occurrences, in order.
RECURSIVE Dedupe(_)
Dedupe(xs) ==
    IF xs = <<>> THEN <<>>
    ELSE Only({IF \E k \in 1..Len(init) : init[k] = xs[Len(xs)]
               THEN init ELSE Append(init, xs[Len(xs)])
               : init \in {Dedupe(SubSeq(xs, 1, Len(xs) - 1))}})

(***************************************************************************)
(* analyzePrompt: the values it computes from text.                        *)
(***************************************************************************)
\* The matches as they are, without the Set.
imageUrls_NoDedupe(text) == MatchAll("imageUrl", text, 1)

\* Array.from(new Set(text.match(imageUrlRegex) || []))
imageUrls(text) == Only({Dedupe(found) : found \in {MatchAll("imageUrl", text, 1)}})

\* Array.from(text.matchAll(paramRegex)).map(...)
parameters(text) == ExtractParameters(text, 1)

\* replace(/--.*$/, ''): no g and no m flag, and "." matches no line
\* terminator, so the match starts at the first "--" that no line terminator
\* follows anywhere up to the end of the text.
StripFlags(s) ==
    LET starts == {i \in 1..(Len(s) - 1) :
                      /\ s[i] = "-"
                      /\ s[i + 1] = "-"
                      /\ \A k \in (i + 2)..Len(s) : ~IsLineTerminator(s[k])}
    IN  IF starts = {} THEN s ELSE SubSeq(s, 1, Min(starts) - 1)

\* replace(/\s*,\s*$/, ''): a comma that only white space follows, with the
\* white space before it.
StripTrailingComma(s) ==
    LET solid == {k \in 1..Len(s) : ~IsSpace(s[k])}
    IN  IF solid = {} \/ s[Max(solid)] # "," THEN s
        ELSE LET t == Max(solid)
                 start == Min({i \in 1..t : \A k \in i..(t - 1) : IsSpace(s[k])})
             IN  SubSeq(s, 1, start - 1)

\* The let descriptionText of analyzePrompt after its last assignment.
descriptionText(text) ==
    Only({Trim(noComma) :
      noComma \in {StripTrailingComma(noParens) :
        noParens \in {RemoveAll("paren", noNumbers, 1) :
          noNumbers \in {RemoveAll("number", noRatios, 1) :
            noRatios \in {RemoveAll("ratio", noMentions, 1) :
              noMentions \in {RemoveAll("mention", noFlags, 1) :
                noFlags \in {StripFlags(noUrls) :
                  noUrls \in {RemoveAll("imageUrl", text, 1)}}}}}}}})

\* s.split(c) for a one-character separator c.
RECURSIVE SplitOn(_, _)
SplitOn(s, c) ==
    Only({IF at = {} THEN <<s>>
          ELSE Only({<<SubSeq(s, 1, Min(at) - 1)>> \o SplitOn(rest, c)
                     : rest \in {SubSeq(s, Min(at) + 1, Len(s))}})
          : at \in {{k \in 1..Len(s) : s[k] = c}}})

NonEmpty(part) == part # <<>>

TrimEach(parts) == [k \in 1..Len(parts) |-> Trim(parts[k])]

\* The lines of the description text, trimmed but not filtered.
descriptions_KeepEmpty(text) ==
    Only({TrimEach(parts) :
      parts \in {SplitOn(d, "\n") : d \in {descriptionText(text)}}})

\* descriptionText.split('\n').map(part => part.trim()).filter(part => part.length > 0)
descriptions(text) ==
    Only({SelectSeq(TrimEach(parts), NonEmpty) :
      parts \in {SplitOn(d, "\n") : d \in {descriptionText(text)}}})

\* The object analyzePrompt hands to setAnalysis.
PromptAnalysis(text) ==
    [imageUrls |-> imageUrls(text),
     descriptions |-> descriptions(text),
     parameters |-> parameters(text)]

(***************************************************************************)
(* The Parameter Editor: the prompt strings updateParameter and            *)
(* handleAddParameter compute.                                             *)
(***************************************************************************)
\* new RegExp(`--${paramName}(?:[:\\s]+[^\\s]+)?\\s*`) tried at i: the index after
\* the match, 0 when there is none.
UpdateMatchEnd(s, i, paramName) ==
    IF StartsWithAt(s, i, <<"-", "-">> \o paramName)
    THEN RunEnd("space", s, ValueGroupAt(s, i + 2 + Len(paramName)).end)
    ELSE 0

\* newValue.trim() || defaultValue
valueToUse(paramName, newValue) ==
    IF Trim(newValue) # <<>> THEN Trim(newValue) ELSE DefaultValue(paramName)

\* prompt.replace(paramRegex, `--${paramName} ${valueToUse} `): the first match only.
ReplaceParameter(prompt, paramName, newValue) ==
    LET starts == {i \in 1..Len(prompt) : UpdateMatchEnd(prompt, i, paramName) > 0}
    IN  IF starts = {} THEN prompt
        ELSE LET i == Min(starts)
                 e == UpdateMatchEnd(prompt, i, paramName)
             IN  SubSeq(prompt, 1, i - 1)
                    \o <<"-", "-">> \o paramName \o <<" ">>
                    \o valueToUse(paramName, newValue) \o <<" ">>
                    \o SubSeq(prompt, e, Len(prompt))

\* newPrompt.trim() of updateParameter
UpdatedPrompt(prompt, paramName, newValue) ==
    Trim(ReplaceParameter(prompt, paramName, newValue))

\* `${prompt} --${key} ${defaultValue}`.trim() of handleAddParameter
AddedPrompt(prompt, key) ==
    Trim(prompt \o <<" ", "-", "-">> \o key \o <<" ">> \o DefaultValue(key))

(***************************************************************************)
(* The sentence aligner inside handleTranslate.  The three CJK sentence    *)
(* marks are the characters u3002, uFF01 and uFF1F.                        *)
(***************************************************************************)
IdeographicFullStop == "u3002"
FullwidthExclamation == "uFF01"
FullwidthQuestion == "uFF1F"

\* [.!?] and its CJK counterpart
IsTerminal(cjk, c) ==
    IF cjk THEN c \in {IdeographicFullStop, FullwidthExclamation, FullwidthQuestion}
    ELSE c \in {".", "!", "?"}

\* The separator tried at offset q (q characters lie before it): the offset
\* after its match, -1 when it does not match.  /(?<=[.!?])\s+/ needs white
\* space; the CJK separator ends in \s* and matches the empty string too.
SeparatorEnd(cjk, s, q) ==
    IF ~(q >= 1 /\ q <= Len(s) /\ IsTerminal(cjk, s[q])) THEN -1
    ELSE LET e == RunEnd("space", s, q + 1) - 1
         IN  IF ~cjk /\ e = q THEN -1 ELSE e

\* The loop of String.prototype.split with a regular expression: p is the
\* offset after the last separator, q the offset tried next; a match that
\* ends at p (an empty match there) is skipped.
RECURSIVE SplitLoop(_, _, _, _)
SplitLoop(cjk, s, p, q) ==
    IF q >= Len(s) THEN <<SubSeq(s, p + 1, Len(s))>>
    ELSE Only({IF e < 0 \/ e = p THEN SplitLoop(cjk, s, p, q + 1)
               ELSE <<SubSeq(s, p + 1, q)>> \o SplitLoop(cjk, s, e, e)
               : e \in {SeparatorEnd(cjk, s, q)}})

HasText(part) == Trim(part) # <<>>

\* s.split(separator).filter(part => part.trim()).map(part => part.trim())
SentenceParts(cjk, s) ==
    Only({TrimEach(parts) :
      parts \in {SelectSeq(IF s = <<>> THEN <<s>> ELSE SplitLoop(cjk, s, 0, 0), HasText)}})

originalParts(text) == SentenceParts(FALSE, text)

translatedParts(result) == SentenceParts(TRUE, result)

\* A zip that stops at the shorter of the two lists of parts.
mappings_ZipShortest(text, result) ==
    Only({[k \in 1..Min({Len(original), Len(translated)}) |->
            [original |-> original[k], translated |-> translated[k], index |-> k - 1]]
          : original \in {originalParts(text)}, translated \in {translatedParts(result)}})

\* originalParts.map((part, index) => ({original, translated, index}))
mappings(text, result) ==
    Only({[k \in 1..Len(original) |->
            [original |-> original[k],
             \* translatedParts[index] || ''
             translated |-> IF k <= Len(translated) /\ translated[k] # <<>>
                            THEN translated[k] ELSE <<>>,
             index |-> k - 1]]
          : original \in {originalParts(text)}, translated \in {translatedParts(result)}})

(***************************************************************************)
(* State.  The first seven variables are the useState cells of App;        *)
(* pending holds the translate promises that have not settled yet, oldest  *)
(* first.  lastEvent is a history variable: the handler that ran last.     *)
(* The fn variables belong to the specification of the pure functions     *)
(* (SpecFn) and stay fixed under Spec: the prompt given, the prompt now,   *)
(* the prompt before the last editor operation, the editor operations      *)
(* applied, and the analysis of the prompt now once it has been taken.     *)
(***************************************************************************)
VARIABLES prompt, analysis, translationError, translatedText, isTranslating,
          textMappings, selectedService, pending, lastEvent,
          fnInput, fnPrompt, fnPrev, fnLog, fnAnalysis

appVars == <<prompt, analysis, translationError, translatedText, isTranslating,
             textMappings, selectedService, pending, lastEvent>>
fnVars == <<fnInput, fnPrompt, fnPrev, fnLog, fnAnalysis>>
vars == <<prompt, analysis, translationError, translatedText, isTranslating,
          textMappings, selectedService, pending, lastEvent,
          fnInput, fnPrompt, fnPrev, fnLog, fnAnalysis>>

\* useState<PromptAnalysis | null>(null)
NullAnalysis == [isNull |-> TRUE]
\* useState<string | null>(null)
NullError == [isNull |-> TRUE]
ErrorMessage(m) == [isNull |-> FALSE, message |-> m]

\* translationServices: Google first, Baidu second.
GoogleService == "google"
BaiduService == "baidu"
translationServices == <<GoogleService, BaiduService>>

(***************************************************************************)
(* Bounds and inputs of the model.                                         *)
(***************************************************************************)
\* Translate promises in flight at once.
MaxPending == 2
\* Longest prompt the add button may produce.
MaxPromptLen == 10
\* Pieces a prompt of SpecFn is typed from.
MaxPieces == 3

\* What the user may leave in the textarea after an edit.
TextareaValues ==
    {<<"a", "\n", "b">>, <<"-", "-", "s">>, <<"c">>}
\* The keys the user clicks in the list of available parameters.
ClickedKeys == {k_tile}
\* What the user types into the value box of a parameter.
TypedValues == {<<"5">>}
\* What the gateway may answer.
Translations == {<<"X", IdeographicFullStop, "Y">>, <<"Z">>}

(***************************************************************************)
(* The Translation Gateway (services/translation.ts): what a translate     *)
(* promise may settle with.  Chinese literals of the source are single     *)
(* characters of the model, named in Latin letters.                        *)
(***************************************************************************)
\* '翻译失败', the text shown for a failed attempt and the prefix of Baidu's errors
TranslationFailed == <<"translation-failed">>
\* '谷歌翻译失败'
GoogleFailed == <<"google-translation-failed">>
\* '网络请求失败'
NetworkFailed == <<"network-request-failed">>
\* '翻译服务余额不足，请联系管理员充值'
BalanceMessage == <<"balance-exhausted-contact-admin">>
\* '未知错误'
UnknownError == <<"unknown-error">>
\* the provider code the catch block looks for
BalanceCode == <<"5", "4", "0", "0", "4">>

\* jsonp rejects with `${error_code}: ${error_msg}`, here the provider's
\* insufficient-balance code; baiduTranslate rethrows it as `翻译失败: ${error.message}`.
BaiduErrors ==
    {TranslationFailed \o <<":", " ">> \o BalanceCode \o <<":", " ", "recharge">>}

\* GoogleTranslationService rethrows as `谷歌翻译失败: ${error.message}`.
GoogleErrors == {GoogleFailed \o <<":", " ", "fetch">>}

\* The Error messages service.translate may reject with.
TranslateErrors(service) ==
    IF service = BaiduService THEN BaiduErrors ELSE GoogleErrors

\* '翻译结果格式错误', thrown by baiduTranslate for a response without a result
MalformedResult == <<"malformed-translation-result">>
\* A provider code other than the insufficient-balance one.
TimeoutCode == <<"5", "2", "0", "0", "1">>

\* Every Error message a service may reject with: for Baidu the provider's
\* error codes, a failed script load and a malformed response, each rethrown
\* behind '翻译失败: '; for Google a failed fetch or a thrown non-Error.
GatewayErrors(service) ==
    IF service = BaiduService
    THEN BaiduErrors
           \cup {TranslationFailed \o <<":", " ">> \o TimeoutCode \o <<":", " ", "timeout">>,
                 TranslationFailed \o <<":", " ">> \o NetworkFailed,
                 TranslationFailed \o <<":", " ">> \o MalformedResult}
    ELSE GoogleErrors \cup {GoogleFailed \o <<":", " ">> \o UnknownError}

\* error.message.includes(t)
Includes(m, t) == \E i \in 1..Len(m) : StartsWithAt(m, i, t)

\* A catch block without the special case.
errorMessage_AlwaysRaw(isError, message) ==
    IF isError THEN message ELSE UnknownError

\* The errorMessage of the catch block; both services reject with an Error.
errorMessage(isError, message) ==
    IF isError
    THEN (IF Includes(message, BalanceCode) THEN BalanceMessage ELSE message)
    ELSE UnknownError

(***************************************************************************)
(* handleTranslate, up to its await: no request for an empty text;         *)
(* otherwise the busy flag is set, the error cleared and service.translate *)
(* called.  A request remembers the text it sent, the service it went to   *)
(* and (history) whether a request issued after it has settled before it.  *)
(***************************************************************************)
Request(text, service) == [text |-> text, service |-> service, overtaken |-> FALSE]

\* lastEvent: the handler that ran; for a settled promise the text its request
\* sent and whether the request had been overtaken.
Event(kind, text, overtaken) == [kind |-> kind, text |-> text, overtaken |-> overtaken]

\* lastEvent of a rejected promise: also the message of the Error.
RejectedEvent(text, overtaken, message) ==
    [kind |-> "rejected", text |-> text, overtaken |-> overtaken, message |-> message]

\* handleTranslate without its early return: a request even for an empty text.
handleTranslate_NoEmptyGuard(text, service) ==
    /\ Len(pending) < MaxPending
    /\ isTranslating' = TRUE
    /\ translationError' = NullError
    /\ pending' = Append(pending, Request(text, service))

\* handleTranslate resetting the busy flag and the error for an empty text.
handleTranslate_EmptyResets(text, service) ==
    IF text = <<>>
    THEN /\ isTranslating' = FALSE
         /\ translationError' = NullError
         /\ UNCHANGED pending
    ELSE /\ Len(pending) < MaxPending
         /\ isTranslating' = TRUE
         /\ translationError' = NullError
         /\ pending' = Append(pending, Request(text, service))

handleTranslate(text, service) ==
    IF text = <<>>
    THEN UNCHANGED <<isTranslating, translationError, pending>>
    ELSE /\ Len(pending) < MaxPending
         /\ isTranslating' = TRUE
         /\ translationError' = NullError
         /\ pending' = Append(pending, Request(text, service))

\* analyzePrompt(text): setAnalysis, then handleTranslate(descriptionText).
analyzePrompt(text) ==
    /\ analysis' = PromptAnalysis(text)
    /\ \E description \in {descriptionText(text)} :
          handleTranslate(description, selectedService)

\* The names listed in the panel of enabled parameters.
ParameterNames(a) ==
    IF a = NullAnalysis THEN {}
    ELSE {a.parameters[k].name : k \in 1..Len(a.parameters)}

(***************************************************************************)
(* The handlers.                                                           *)
(***************************************************************************)
\* textarea onChange: setPrompt(newValue); analyzePrompt(newValue)
TextareaOnChange(newValue) ==
    /\ newValue # prompt
    /\ prompt' = newValue
    /\ analyzePrompt(newValue)
    /\ lastEvent' = Event("textarea", <<>>, FALSE)
    /\ UNCHANGED <<translatedText, textMappings, selectedService>>

\* updateParameter(paramName, newValue), reached from the value box of a
\* parameter that the panel lists.
updateParameter(paramName, newValue) ==
    /\ analysis # NullAnalysis
    /\ paramName \in ParameterNames(analysis)
    /\ \E newPrompt \in {UpdatedPrompt(prompt, paramName, newValue)} :
          /\ prompt' = newPrompt
          /\ analyzePrompt(newPrompt)
    /\ lastEvent' = Event("update", <<>>, FALSE)
    /\ UNCHANGED <<translatedText, textMappings, selectedService>>

\* handleAddParameter analysing the prompt of the render on screen instead of
\* the new prompt.
handleAddParameter_StaleAnalysis(key) ==
    /\ analysis # NullAnalysis
    /\ key \in CatalogKeys \ ParameterNames(analysis)
    /\ \E newPrompt \in {AddedPrompt(prompt, key)} :
          /\ Len(newPrompt) <= MaxPromptLen
          /\ prompt' = newPrompt
          /\ analyzePrompt(prompt)
    /\ lastEvent' = Event("add", <<>>, FALSE)
    /\ UNCHANGED <<translatedText, textMappings, selectedService>>

\* handleAddParameter(key), reached from the list of available parameters:
\* the catalog keys that the analysis does not list.
handleAddParameter(key) ==
    /\ analysis # NullAnalysis
    /\ key \in CatalogKeys \ ParameterNames(analysis)
    /\ \E newPrompt \in {AddedPrompt(prompt, key)} :
          /\ Len(newPrompt) <= MaxPromptLen
          /\ prompt' = newPrompt
          /\ analyzePrompt(newPrompt)
    /\ lastEvent' = Event("add", <<>>, FALSE)
    /\ UNCHANGED <<translatedText, textMappings, selectedService>>

\* The retry button, shown with the error once no request is busy:
\* handleTranslate(analysis?.descriptions[0] || '')
RetryOnClick ==
    /\ analysis # NullAnalysis
    /\ analysis.descriptions # <<>>
    /\ ~isTranslating
    /\ translationError # NullError
    /\ handleTranslate(analysis.descriptions[1], selectedService)
    /\ lastEvent' = Event("retry", <<>>, FALSE)
    /\ UNCHANGED <<prompt, analysis, translatedText, textMappings, selectedService>>

\* The service select onChange: setSelectedService(service), then
\* handleTranslate(analysis.descriptions[0]) of the render that is on screen,
\* whose selectedService is still the old one.
ServiceOnChange(service) ==
    /\ service # selectedService
    /\ selectedService' = service
    /\ IF analysis # NullAnalysis /\ analysis.descriptions # <<>>
       THEN handleTranslate(analysis.descriptions[1], selectedService)
       ELSE UNCHANGED <<isTranslating, translationError, pending>>
    /\ lastEvent' = Event("service", <<>>, FALSE)
    /\ UNCHANGED <<prompt, analysis, translatedText, textMappings>>

\* pending without its i-th request; the requests issued before it are now
\* overtaken.
Settle(i) ==
    [k \in 1..(Len(pending) - 1) |->
        IF k < i THEN [pending[k] EXCEPT !.overtaken = TRUE] ELSE pending[k + 1]]

\* handleTranslate adding the new pairs to the pairs already in state.
TranslateFulfilled_KeepsOldPairs(i, result) ==
    /\ i \in 1..Len(pending)
    /\ translatedText' = result
    /\ textMappings' = textMappings \o mappings(pending[i].text, result)
    /\ isTranslating' = FALSE
    /\ pending' = Settle(i)
    /\ lastEvent' = Event("fulfilled", pending[i].text, pending[i].overtaken)
    /\ UNCHANGED <<prompt, analysis, translationError, selectedService>>

\* handleTranslate dropping the result of a request that a later request has
\* already overtaken.
TranslateFulfilled_DropStale(i, result) ==
    /\ i \in 1..Len(pending)
    /\ IF pending[i].overtaken
       THEN UNCHANGED <<translatedText, textMappings>>
       ELSE /\ translatedText' = result
            /\ textMappings' = mappings(pending[i].text, result)
    /\ isTranslating' = FALSE
    /\ pending' = Settle(i)
    /\ lastEvent' = Event("fulfilled", pending[i].text, pending[i].overtaken)
    /\ UNCHANGED <<prompt, analysis, translationError, selectedService>>

\* handleTranslate after its await, the promise fulfilled with result: the try
\* block and the finally block.
TranslateFulfilled(i, result) ==
    /\ i \in 1..Len(pending)
    /\ translatedText' = result
    /\ textMappings' = mappings(pending[i].text, result)
    /\ isTranslating' = FALSE
    /\ pending' = Settle(i)
    /\ lastEvent' = Event("fulfilled", pending[i].text, pending[i].overtaken)
    /\ UNCHANGED <<prompt, analysis, translationError, selectedService>>

\* A catch block that also resets the analysis and the sentence pairs.
TranslateRejected_ResetsAnalysis(i, message) ==
    /\ i \in 1..Len(pending)
    /\ message \in GatewayErrors(pending[i].service)
    /\ translatedText' = TranslationFailed
    /\ translationError' = ErrorMessage(errorMessage(TRUE, message))
    /\ isTranslating' = FALSE
    /\ analysis' = NullAnalysis
    /\ textMappings' = <<>>
    /\ pending' = Settle(i)
    /\ lastEvent' = RejectedEvent(pending[i].text, pending[i].overtaken, message)
    /\ UNCHANGED <<prompt, selectedService>>

\* handleTranslate after its await, the promise rejected with Error(message):
\* the catch block and the finally block.
TranslateRejected(i, message) ==
    /\ i \in 1..Len(pending)
    /\ message \in GatewayErrors(pending[i].service)
    /\ translatedText' = TranslationFailed
    /\ translationError' = ErrorMessage(errorMessage(TRUE, message))
    /\ isTranslating' = FALSE
    /\ pending' = Settle(i)
    /\ lastEvent' = RejectedEvent(pending[i].text, pending[i].overtaken, message)
    /\ UNCHANGED <<prompt, analysis, textMappings, selectedService>>

Init ==
    /\ prompt = <<>>
    /\ analysis = NullAnalysis
    /\ translationError = NullError
    /\ translatedText = <<>>
    /\ isTranslating = FALSE
    /\ textMappings = <<>>
    /\ selectedService = translationServices[1]
    /\ pending = <<>>
    /\ lastEvent = Event("init", <<>>, FALSE)
    /\ fnInput = <<>>
    /\ fnPrompt = <<>>
    /\ fnPrev = <<>>
    /\ fnLog = <<>>
    /\ fnAnalysis = NullAnalysis

Next ==
    \/ \E newValue \in TextareaValues : TextareaOnChange(newValue) /\ UNCHANGED fnVars
    \/ \E paramName \in ParameterNames(analysis), newValue \in TypedValues :
          updateParameter(paramName, newValue) /\ UNCHANGED fnVars
    \/ \E key \in ClickedKeys : handleAddParameter(key) /\ UNCHANGED fnVars
    \/ RetryOnClick /\ UNCHANGED fnVars
    \/ \E service \in {GoogleService, BaiduService} :
          ServiceOnChange(service) /\ UNCHANGED fnVars
    \/ \E i \in 1..Len(pending), result \in Translations :
          TranslateFulfilled(i, result) /\ UNCHANGED fnVars
    \/ \E i \in 1..Len(pending) :
          \E message \in TranslateErrors(pending[i].service) :
             TranslateRejected(i, message) /\ UNCHANGED fnVars

Spec == Init /\ [][Next]_vars

(***************************************************************************)
(* SpecFn: analyze, add and update as pure functions of a prompt string.   *)
(* The prompt given is any string typed from at most MaxPieces pieces; add *)
(* and update are applied to it, add first when both are, and the prompt   *)
(* at hand is analyzed.  The React state stays as constructed.             *)
(***************************************************************************)
Pieces ==
    {<<"a">>, <<" ">>, <<"\n">>, <<"5">>, <<":">>, <<"-", "-", "s">>, <<"-", "-", "s", "t", "y", "l", "e">>, <<"-", "-", "c", "h", "a", "o", "s">>}

RECURSIVE PieceStrings(_)
PieceStrings(n) ==
    IF n = 0 THEN {<<>>}
    ELSE LET shorter == PieceStrings(n - 1)
         IN  shorter \cup {s \o piece : s \in shorter, piece \in Pieces}

FnInputs == PieceStrings(MaxPieces)
\* The keys add is applied with, and the values update is applied with.
FnKeys == {k_chaos, k_s}
FnValues == {<<"5", "0">>}

EditorOp(op, name, value) == [op |-> op, name |-> name, value |-> value]

InitFn ==
    /\ prompt = <<>>
    /\ analysis = NullAnalysis
    /\ translationError = NullError
    /\ translatedText = <<>>
    /\ isTranslating = FALSE
    /\ textMappings = <<>>
    /\ selectedService = translationServices[1]
    /\ pending = <<>>
    /\ lastEvent = Event("init", <<>>, FALSE)
    /\ fnInput \in FnInputs
    /\ fnPrompt = fnInput
    /\ fnPrev = fnInput
    /\ fnLog = <<>>
    /\ fnAnalysis = NullAnalysis

\* analyze(text)
FnAnalyze ==
    /\ fnAnalysis = NullAnalysis
    /\ fnAnalysis' = PromptAnalysis(fnPrompt)
    /\ UNCHANGED <<fnInput, fnPrompt, fnPrev, fnLog>>

\* add(prompt, key)
FnAdd(key) ==
    /\ fnLog = <<>>
    /\ fnPrev' = fnPrompt
    /\ fnPrompt' = AddedPrompt(fnPrompt, key)
    /\ fnLog' = <<EditorOp("add", key, <<>>)>>
    /\ fnAnalysis' = NullAnalysis
    /\ UNCHANGED fnInput

\* update(prompt, name, candidateValue), on the prompt given for a name that
\* its analysis lists, or on the result of add for the key just added.
FnUpdate(name, value) ==
    /\ \/ fnLog = <<>> /\ \E k \in 1..Len(parameters(fnPrompt)) :
                             parameters(fnPrompt)[k].name = name
       \/ fnLog = <<EditorOp("add", name, <<>>)>>
    /\ fnPrev' = fnPrompt
    /\ fnPrompt' = UpdatedPrompt(fnPrompt, name, value)
    /\ fnLog' = Append(fnLog, EditorOp("update", name, value))
    /\ fnAnalysis' = NullAnalysis
    /\ UNCHANGED fnInput

NextFn ==
    \/ FnAnalyze /\ UNCHANGED appVars
    \/ \E key \in FnKeys : FnAdd(key) /\ UNCHANGED appVars
    \/ \E name \in FnKeys, value \in FnValues : FnUpdate(name, value) /\ UNCHANGED appVars

SpecFn == InitFn /\ [][NextFn]_vars

(***************************************************************************)
(* SpecCatalog: add and update over every key of the catalog.  add is      *)
(* applied with each catalog key, update with a catalog key just added or  *)
(* with a name the prompt lists, also one the catalog lacks, and with      *)
(* candidate values that are empty, blank or not.                          *)
(***************************************************************************)
\* A flag name that PARAMETER_INFO has no entry for.
UnknownKey == <<"z", "z">>

CatalogInputs ==
    {<<>>, <<"a">>, <<"a", " ", "\n">>,
     <<"-", "-">> \o UnknownKey, <<"-", "-">> \o UnknownKey \o <<" ", "3">>}

CandidateValues == {<<>>, <<" ">>, <<"7">>}

InitCatalog ==
    /\ prompt = <<>>
    /\ analysis = NullAnalysis
    /\ translationError = NullError
    /\ translatedText = <<>>
    /\ isTranslating = FALSE
    /\ textMappings = <<>>
    /\ selectedService = translationServices[1]
    /\ pending = <<>>
    /\ lastEvent = Event("init", <<>>, FALSE)
    /\ fnInput \in CatalogInputs
    /\ fnPrompt = fnInput
    /\ fnPrev = fnInput
    /\ fnLog = <<>>
    /\ fnAnalysis = NullAnalysis

NextCatalog ==
    \/ \E key \in CatalogKeys : FnAdd(key) /\ UNCHANGED appVars
    \/ \E name \in CatalogKeys \cup {UnknownKey}, value \in CandidateValues :
          FnUpdate(name, value) /\ UNCHANGED appVars

SpecCatalog == InitCatalog /\ [][NextCatalog]_vars

(***************************************************************************)
(* SpecAlign: the sentence aligner on texts of several sentences.  The     *)
(* user types a prompt of sentences and the gateway answers with a         *)
(* translation of fewer, as many or more sentences.                        *)
(***************************************************************************)
AlignPrompts ==
    {<<"A", ".", " ", "B", ".", " ", "C", ".">>,
     <<"A", "!", " ", " ", "B", "?">>,
     <<"A", ".", "B">>,
     <<"A", " ", "B">>}

AlignTranslations ==
    {<<"X", IdeographicFullStop>>,
     <<"X", IdeographicFullStop, "Y", IdeographicFullStop>>,
     <<"X", IdeographicFullStop, " ", "Y", FullwidthExclamation, "Z", FullwidthQuestion, "W">>,
     <<>>}

NextAlign ==
    \/ \E newValue \in AlignPrompts : TextareaOnChange(newValue) /\ UNCHANGED fnVars
    \/ \E i \in 1..Len(pending), result \in AlignTranslations :
          TranslateFulfilled(i, result) /\ UNCHANGED fnVars

SpecAlign == Init /\ [][NextAlign]_vars

(***************************************************************************)
(* SpecUrl: analyze on prompts that hold image links: an image file, a     *)
(* short link, a link with a query, a link in capitals, repeated and       *)
(* adjacent, up to MaxUrlPieces pieces.                                    *)
(***************************************************************************)
MaxUrlPieces == 3

UrlPieces ==
    {<<"h", "t", "t", "p", ":", "/", "/", "u", ".", "j", "p", "g">>,
     <<"h", "t", "t", "p", "s", ":", "/", "/", "s", ".", "m", "j", ".", "r", "u", "n", "/", "k">>,
     <<"h", "t", "t", "p", ":", "/", "/", "u", ".", "j", "p", "g", "?", "q">>,
     <<"H", "T", "T", "P", ":", "/", "/", "U", ".", "J", "P", "G">>,
     <<" ">>,
     <<"a">>}

RECURSIVE UrlPieceStrings(_)
UrlPieceStrings(n) ==
    IF n = 0 THEN {<<>>}
    ELSE LET shorter == UrlPieceStrings(n - 1)
         IN  shorter \cup {s \o piece : s \in shorter, piece \in UrlPieces}

InitUrl ==
    /\ prompt = <<>>
    /\ analysis = NullAnalysis
    /\ translationError = NullError
    /\ translatedText = <<>>
    /\ isTranslating = FALSE
    /\ textMappings = <<>>
    /\ selectedService = translationServices[1]
    /\ pending = <<>>
    /\ lastEvent = Event("init", <<>>, FALSE)
    /\ fnInput \in UrlPieceStrings(MaxUrlPieces)
    /\ fnPrompt = fnInput
    /\ fnPrev = fnInput
    /\ fnLog = <<>>
    /\ fnAnalysis = NullAnalysis

NextUrl == FnAnalyze /\ UNCHANGED appVars

SpecUrl == InitUrl /\ [][NextUrl]_vars

(***************************************************************************)
(* SpecDesc: analyze on prompts of description text: words, blanks, line   *)
(* breaks, commas, hyphens, numbers, mentions, parenthesized groups and    *)
(* image links, up to MaxDescPieces pieces.                                *)
(***************************************************************************)
MaxDescPieces == 4

DescPieces ==
    {<<"a">>,
     <<" ">>,
     <<"\n">>,
     <<",">>,
     <<"-">>,
     <<"5">>,
     <<"@", "u">>,
     <<"(", "b", ")">>,
     <<"h", "t", "t", "p", ":", "/", "/", "u", ".", "j", "p", "g">>}

RECURSIVE DescPieceStrings(_)
DescPieceStrings(n) ==
    IF n = 0 THEN {<<>>}
    ELSE LET shorter == DescPieceStrings(n - 1)
         IN  shorter \cup {s \o piece : s \in shorter, piece \in DescPieces}

InitDesc ==
    /\ prompt = <<>>
    /\ analysis = NullAnalysis
    /\ translationError = NullError
    /\ translatedText = <<>>
    /\ isTranslating = FALSE
    /\ textMappings = <<>>
    /\ selectedService = translationServices[1]
    /\ pending = <<>>
    /\ lastEvent = Event("init", <<>>, FALSE)
    /\ fnInput \in DescPieceStrings(MaxDescPieces)
    /\ fnPrompt = fnInput
    /\ fnPrev = fnInput
    /\ fnLog = <<>>
    /\ fnAnalysis = NullAnalysis

NextDesc == FnAnalyze /\ UNCHANGED appVars

SpecDesc == InitDesc /\ [][NextDesc]_vars

(***************************************************************************)
(* SpecError: the application with a gateway that only fails, with every   *)
(* message of GatewayErrors.                                               *)
(***************************************************************************)
NextError ==
    \/ \E newValue \in TextareaValues : TextareaOnChange(newValue) /\ UNCHANGED fnVars
    \/ RetryOnClick /\ UNCHANGED fnVars
    \/ \E service \in {GoogleService, BaiduService} :
          ServiceOnChange(service) /\ UNCHANGED fnVars
    \/ \E i \in 1..Len(pending) :
          \E message \in GatewayErrors(pending[i].service) :
             TranslateRejected(i, message) /\ UNCHANGED fnVars

SpecError == Init /\ [][NextError]_vars

(***************************************************************************)
(* SpecPairs: overlapping requests for prompts of several sentences, each  *)
(* of which may resolve or fail, in any order.                             *)
(***************************************************************************)
NextPairs ==
    \/ \E newValue \in AlignPrompts : TextareaOnChange(newValue) /\ UNCHANGED fnVars
    \/ \E i \in 1..Len(pending), result \in AlignTranslations :
          TranslateFulfilled(i, result) /\ UNCHANGED fnVars
    \/ \E i \in 1..Len(pending) :
          \E message \in TranslateErrors(pending[i].service) :
             TranslateRejected(i, message) /\ UNCHANGED fnVars

SpecPairs == Init /\ [][NextPairs]_vars

(***************************************************************************)
(* Properties of the pure functions, checked under SpecFn.                 *)
(***************************************************************************)
NamesOf(params) == [k \in 1..Len(params) |-> params[k].name]

Occurrences(params, name) == {k \in 1..Len(params) : params[k].name = name}

\* The entries of params whose name is not name, in order.
OthersOf(params, name) ==
    LET IsOther(param) == param.name # name
    IN  SelectSeq(params, IsOther)

\* The names of the flag tokens of s, a token being "--" and the letters and
\* digits that follow it, in order of appearance from index i on.
RECURSIVE FlagTokenNames(_, _)
FlagTokenNames(s, i) ==
    IF i > Len(s) THEN <<>>
    ELSE IF StartsWithAt(s, i, <<"-", "-">>) /\ i + 2 <= Len(s) /\ IsAlnum(s[i + 2])
         THEN <<SubSeq(s, i + 2, RunEnd("alnum", s, i + 2) - 1)>>
                  \o FlagTokenNames(s, RunEnd("alnum", s, i + 2))
         ELSE FlagTokenNames(s, i + 1)

\* Index of the first "--" of s, 0 when there is none.
FirstDashDash(s) ==
    LET at == {i \in 1..(Len(s) - 1) : s[i] = "-" /\ s[i + 1] = "-"}
    IN  IF at = {} THEN 0 ELSE Min(at)

Analyzed == fnAnalysis # NullAnalysis

\* C1: after add(prompt, key), for a key the analysis of prompt does not list
\* (the keys the list of available parameters offers), the analysis of the
\* new prompt lists key exactly once, with enabled = TRUE.
C1_AddedKeyListedOnce ==
    (/\ Analyzed
     /\ Len(fnLog) = 1
     /\ fnLog[1].op = "add"
     /\ Occurrences(parameters(fnPrev), fnLog[1].name) = {})
    => /\ Cardinality(Occurrences(fnAnalysis.parameters, fnLog[1].name)) = 1
       /\ \A k \in Occurrences(fnAnalysis.parameters, fnLog[1].name) :
             fnAnalysis.parameters[k].enabled

\* C2: after update(prompt, name, v) on a prompt whose analysis lists name,
\* re-analysis yields the same other parameters, with the same values, as the
\* analysis of the prompt before.
C2_UpdateKeepsOtherParameters ==
    (/\ Analyzed
     /\ Len(fnLog) = 1
     /\ fnLog[1].op = "update")
    => OthersOf(fnAnalysis.parameters, fnLog[1].name)
          = OthersOf(parameters(fnPrev), fnLog[1].name)

\* C3: add(prompt, "chaos"), then update(result, "chaos", "50"), then analyze
\* yields exactly one parameter named chaos, and its value is "50".
C3_AddUpdateChaos ==
    (/\ Analyzed
     /\ fnLog = <<EditorOp("add", k_chaos, <<>>), EditorOp("update", k_chaos, <<"5", "0">>)>>)
    => /\ Cardinality(Occurrences(fnAnalysis.parameters, k_chaos)) = 1
       /\ \A k \in Occurrences(fnAnalysis.parameters, k_chaos) :
             fnAnalysis.parameters[k].value = <<"5", "0">>

\* C4: the analysis of a text lists exactly one parameter per flag token of
\* the text, in order of appearance, each with enabled = TRUE.
C4_EveryFlagTokenListed ==
    (Analyzed /\ fnLog = <<>>)
    => /\ NamesOf(fnAnalysis.parameters) = FlagTokenNames(fnInput, 1)
       /\ \A k \in 1..Len(fnAnalysis.parameters) : fnAnalysis.parameters[k].enabled

\* C5: for a text with a "--", descriptions holds nothing located at or after
\* the first "--": it is the descriptions of the text before that "--".
C5_NothingAfterFirstFlag ==
    (Analyzed /\ fnLog = <<>> /\ FirstDashDash(fnInput) > 0)
    => fnAnalysis.descriptions
          = descriptions(SubSeq(fnInput, 1, FirstDashDash(fnInput) - 1))

(***************************************************************************)
(* Properties of the application, checked under Spec.                      *)
(***************************************************************************)
\* The handlers that edit the prompt.
EditKinds == {"textarea", "update", "add"}

\* C6: a response that resolves overwrites translatedText and textMappings
\* whatever the current prompt is: after the response of a request, also one
\* that a later request has overtaken, the sentence pairs are those of that
\* request's text and the translation shown is its result.
C6_ResolvedResponseOverwrites ==
    lastEvent.kind = "fulfilled"
    => /\ translatedText \in Translations
       /\ textMappings = mappings(lastEvent.text, translatedText)

\* An older request resolved after a newer one, nothing is pending, and the
\* state left is derived from the older text, not from the current prompt.
C6_StaleResponseLast ==
    /\ lastEvent.kind = "fulfilled"
    /\ lastEvent.overtaken
    /\ pending = <<>>
    /\ lastEvent.text # descriptionText(prompt)
    /\ textMappings # <<>>
    /\ textMappings[1].original = lastEvent.text

\* C7: whenever the analysis is non-null it is analyze(prompt) for the
\* current prompt, whatever edits and translation outcomes came before.
C7_AnalysisOfCurrentPrompt ==
    analysis = NullAnalysis \/ analysis = PromptAnalysis(prompt)

\* A translation failed after the prompt was edited to one with parameters
\* and description lines.
C7_AnalysedAfterFailure ==
    /\ lastEvent.kind = "rejected"
    /\ analysis # NullAnalysis
    /\ analysis.parameters # <<>>
    /\ analysis.descriptions # <<>>

\* C8: a failed translation attempt changes only translatedText,
\* translationError and isTranslating: prompt, analysis, sentence pairs and
\* selected service are what they were.
C8_FailureKeepsAnalysis ==
    [][lastEvent'.kind = "rejected"
        => /\ prompt' = prompt
           /\ analysis' = analysis
           /\ textMappings' = textMappings
           /\ selectedService' = selectedService]_vars

\* A failure arrived while an analysis and sentence pairs were on screen.
C8_FailedWithAnalysis ==
    /\ lastEvent.kind = "rejected"
    /\ analysis # NullAnalysis
    /\ analysis.descriptions # <<>>
    /\ textMappings # <<>>
    /\ translatedText = TranslationFailed
    /\ translationError # NullError

\* C9: retry after a failed attempt for the current description text sends
\* the same text that the failed attempt sent.
C9_RetrySendsFailedText ==
    [][(/\ lastEvent.kind = "rejected"
        /\ lastEvent.text = descriptionText(prompt)
        /\ lastEvent'.kind = "retry")
        => pending'[Len(pending')].text = lastEvent.text]_vars

\* C10, as stated: every edit is followed by one new translation request for
\* the description text of the new prompt, also when that text is empty.
C10_EveryEditRequests ==
    [][lastEvent'.kind \in EditKinds
        => /\ analysis' = PromptAnalysis(prompt')
           /\ pending' = Append(pending, Request(descriptionText(prompt'), selectedService))]_vars

\* C10, amended: every edit analyses the new prompt at once and issues one new
\* request for its description text when that text is not empty, and no
\* request when it is empty.
C10_EditRequestsUnlessEmpty ==
    [][lastEvent'.kind \in EditKinds
        => /\ analysis' = PromptAnalysis(prompt')
           /\ pending' = IF descriptionText(prompt') = <<>>
                         THEN pending
                         ELSE Append(pending, Request(descriptionText(prompt'), selectedService))]_vars

\* An edit left a prompt without description text while the request of an
\* earlier prompt was still pending, and that request is the only one.
C10_EditWithoutRequest ==
    /\ lastEvent.kind \in EditKinds
    /\ prompt # <<>>
    /\ descriptionText(prompt) = <<>>
    /\ Len(pending) = 1
    /\ pending[1].text # <<>>

(***************************************************************************)
(* Properties of default-value resolution, checked under SpecCatalog.      *)
(***************************************************************************)
\* The resolution policy, in priority order: the default if defined; for a
\* number the string form of the minimum if defined, else "1"; the first
\* allowed value if there is one; else "1".  A key without an entry has
\* nothing defined.
PolicyDefault(key) ==
    IF key \notin CatalogKeys THEN <<"1">>
    ELSE IF PARAMETER_INFO[key].hasDefault THEN PARAMETER_INFO[key].default
    ELSE IF PARAMETER_INFO[key].type = "number"
         THEN (IF PARAMETER_INFO[key].hasMin
               THEN NatToString(PARAMETER_INFO[key].min) ELSE <<"1">>)
    ELSE IF PARAMETER_INFO[key].hasValues /\ PARAMETER_INFO[key].values # <<>>
         THEN PARAMETER_INFO[key].values[1]
    ELSE <<"1">>

EndsWith(s, t) ==
    Len(t) <= Len(s) /\ SubSeq(s, Len(s) - Len(t) + 1, Len(s)) = t

\* The token that follows the first occurrence of t in s.
TokenAfterFirst(s, t) ==
    LET at == {i \in 1..Len(s) : StartsWithAt(s, i, t)}
    IN  IF at = {} THEN <<>>
        ELSE SubSeq(s, Min(at) + Len(t), RunEnd("notspace", s, Min(at) + Len(t)) - 1)

LastOp == fnLog[Len(fnLog)]

\* C11: add always writes the policy's default for the key; update writes it
\* when the trimmed candidate value is empty (also for a name the catalog
\* lacks), and the trimmed candidate otherwise.
C11_DefaultValuePriority ==
    fnLog # <<>>
    => IF LastOp.op = "add"
       THEN EndsWith(fnPrompt, <<"-", "-">> \o LastOp.name \o <<" ">> \o PolicyDefault(LastOp.name))
       ELSE TokenAfterFirst(fnPrompt, <<"-", "-">> \o LastOp.name \o <<" ">>)
               = IF Trim(LastOp.value) = <<>> THEN PolicyDefault(LastOp.name)
                 ELSE Trim(LastOp.value)

\* stylize, whose default "100" wins over its minimum 0, was added and then
\* updated with a blank candidate value.
C11_BlankUpdateOfStylize ==
    /\ Len(fnLog) = 2
    /\ LastOp = EditorOp("update", k_stylize, <<" ">>)
    /\ fnPrompt = <<"a", " ", "-", "-">> \o k_stylize \o <<" ", "1", "0", "0">>

\* C12: add(prompt, name) is the trimmed prompt, one space, and
\* "--name <defaultValue>"; stated for the prompts that hold more than
\* whitespace, so that there is a trimmed prompt to append to.
C12_AddAppendsToTrimmedPrompt ==
    (/\ Len(fnLog) = 1
     /\ LastOp.op = "add"
     /\ Trim(fnPrev) # <<>>)
    => fnPrompt = Trim(fnPrev) \o <<" ", "-", "-">> \o LastOp.name
                     \o <<" ">> \o PolicyDefault(LastOp.name)

(***************************************************************************)
(* Properties of the sentence aligner, checked under SpecAlign.            *)
(***************************************************************************)
\* C13: the pairs are an index-aligned zip: as many pairs as the original
\* text has sentence parts; pair i has index i, the i-th original part and
\* the i-th translated part, or the empty string when there is none;
\* translated parts beyond the original's are dropped.
C13_AlignIsIndexedZip ==
    lastEvent.kind = "fulfilled"
    => /\ Len(textMappings) = Len(originalParts(lastEvent.text))
       /\ \A k \in 1..Len(textMappings) :
             /\ textMappings[k].index = k - 1
             /\ textMappings[k].original = originalParts(lastEvent.text)[k]
             /\ textMappings[k].translated
                   = IF k <= Len(translatedParts(translatedText))
                     THEN translatedParts(translatedText)[k] ELSE <<>>

\* Three sentences against a translation of one: three pairs, the last two
\* with an empty translation.
C13_ThreeAgainstOne ==
    /\ lastEvent.kind = "fulfilled"
    /\ lastEvent.text = <<"A", ".", " ", "B", ".", " ", "C", ".">>
    /\ translatedText = <<"X", IdeographicFullStop>>
    /\ textMappings
          = <<[original |-> <<"A", ".">>, translated |-> <<"X", IdeographicFullStop>>, index |-> 0],
              [original |-> <<"B", ".">>, translated |-> <<>>, index |-> 1],
              [original |-> <<"C", ".">>, translated |-> <<>>, index |-> 2]>>

(***************************************************************************)
(* Properties of image-link extraction, checked under SpecUrl.             *)
(***************************************************************************)
\* The whole of u is one match of the image-link pattern: an http or https
\* link made of link characters only.
IsImageUrl(u) ==
    /\ ImageUrlMatchEnd(u, 1) = Len(u) + 1
    /\ StartsWithAtI(u, 1, <<"h", "t", "t", "p">>)
    /\ \A k \in 1..Len(u) : IsUrlChar(u[k])

\* Index of the first match of the text that equals u.
FirstMatchOf(text, u) ==
    Min({k \in 1..Len(MatchAll("imageUrl", text, 1)) : MatchAll("imageUrl", text, 1)[k] = u})

\* C14: imageUrls has no duplicates, lists the links of the text in the order
\* of their first occurrence, and every entry matches the image-link pattern.
C14_ImageUrlsDistinctOrdered ==
    Analyzed
    => /\ \A j, k \in 1..Len(fnAnalysis.imageUrls) :
             j < k => fnAnalysis.imageUrls[j] # fnAnalysis.imageUrls[k]
       /\ {fnAnalysis.imageUrls[k] : k \in 1..Len(fnAnalysis.imageUrls)}
             = {MatchAll("imageUrl", fnInput, 1)[k] : k \in 1..Len(MatchAll("imageUrl", fnInput, 1))}
       /\ \A j, k \in 1..Len(fnAnalysis.imageUrls) :
             j < k => FirstMatchOf(fnInput, fnAnalysis.imageUrls[j])
                         < FirstMatchOf(fnInput, fnAnalysis.imageUrls[k])
       /\ \A k \in 1..Len(fnAnalysis.imageUrls) : IsImageUrl(fnAnalysis.imageUrls[k])

\* A link, a second link, and the first link again: two entries, in order.
C14_RepeatedLink ==
    /\ Analyzed
    /\ Len(MatchAll("imageUrl", fnInput, 1)) = 3
    /\ MatchAll("imageUrl", fnInput, 1)[1] = MatchAll("imageUrl", fnInput, 1)[3]
    /\ Len(fnAnalysis.imageUrls) = 2
    /\ fnAnalysis.imageUrls[1] = MatchAll("imageUrl", fnInput, 1)[1]
    /\ fnAnalysis.imageUrls[2] = MatchAll("imageUrl", fnInput, 1)[2]

(***************************************************************************)
(* Properties of description isolation, checked under SpecDesc.            *)
(***************************************************************************)
\* The lines of the description text of the prompt analysed.
DescriptionLines == SplitOn(descriptionText(fnInput), "\n")

\* The strictly increasing maps from 1..n into 1..m.
Increasing(n, m) ==
    {f \in [1..n -> 1..m] : \A j, k \in 1..n : j < k => f[j] < f[k]}

\* C15: every element of descriptions is non-empty, has no white space at
\* either end and holds no line break, and the elements are lines of the
\* description text, trimmed, in the order of those lines.
C15_DescriptionsAreTrimmedLines ==
    Analyzed
    => /\ \A k \in 1..Len(fnAnalysis.descriptions) :
             /\ fnAnalysis.descriptions[k] # <<>>
             /\ ~IsSpace(fnAnalysis.descriptions[k][1])
             /\ ~IsSpace(fnAnalysis.descriptions[k][Len(fnAnalysis.descriptions[k])])
             /\ \A c \in 1..Len(fnAnalysis.descriptions[k]) :
                   fnAnalysis.descriptions[k][c] # "\n"
       /\ \E f \in Increasing(Len(fnAnalysis.descriptions), Len(DescriptionLines)) :
             \A k \in 1..Len(fnAnalysis.descriptions) :
                fnAnalysis.descriptions[k] = Trim(DescriptionLines[f[k]])

\* Three lines, the middle one blank: two descriptions.
C15_BlankLineDropped ==
    /\ Analyzed
    /\ Len(DescriptionLines) = 3
    /\ DescriptionLines[2] = <<>>
    /\ Len(fnAnalysis.descriptions) = 2

(***************************************************************************)
(* Properties of error normalisation, checked under SpecError.             *)
(***************************************************************************)
\* C16: after a failure with an Error, translationError is the fixed balance
\* message when the Error's message contains the insufficient-balance code
\* and the raw message otherwise; translatedText is the failure marker and
\* isTranslating is false.
C16_ErrorNormalisation ==
    lastEvent.kind = "rejected"
    => /\ translationError
             = ErrorMessage(IF Includes(lastEvent.message, BalanceCode)
                            THEN BalanceMessage ELSE lastEvent.message)
       /\ translatedText = TranslationFailed
       /\ ~isTranslating

\* The provider reported insufficient balance while another request was still
\* pending.
C16_BalanceFailure ==
    /\ lastEvent.kind = "rejected"
    /\ Includes(lastEvent.message, BalanceCode)
    /\ translationError = ErrorMessage(BalanceMessage)
    /\ pending # <<>>

\* C17: for a prompt without "--", flag stripping removes nothing: what
\* reaches the later steps is the prompt without its image links.
C17_NoFlagNoStripping ==
    (Analyzed /\ FirstDashDash(fnInput) = 0)
    => /\ StripFlags(RemoveAll("imageUrl", fnInput, 1)) = RemoveAll("imageUrl", fnInput, 1)
       /\ fnAnalysis.parameters = <<>>

\* C18: text that follows a mention is kept: when a prompt without hyphens
\* has a mention, then white space, then the word "a" later on the line or
\* on a later line, some description holds that word.
C18_TextAfterMentionKept ==
    (/\ Analyzed
     /\ \A k \in 1..Len(fnInput) : fnInput[k] # "-"
     /\ \E i, j, k \in 1..Len(fnInput) :
           /\ i < j /\ j < k
           /\ fnInput[i] = "@"
           /\ IsSpace(fnInput[j])
           /\ fnInput[k] = "a")
    => \E d \in 1..Len(fnAnalysis.descriptions) :
          \E c \in 1..Len(fnAnalysis.descriptions[d]) :
             fnAnalysis.descriptions[d][c] = "a"

(***************************************************************************)
(* Properties of overlapping requests, checked under Spec.                 *)
(***************************************************************************)
\* C19: while a translation request has neither resolved nor failed,
\* isTranslating is true.
C19_BusyWhileOutstanding ==
    pending # <<>> => isTranslating

\* C20: with no request outstanding, right after an attempt has completed,
\* translationError is non-null exactly when that attempt failed.
C20_ErrorAgreesWithLastOutcome ==
    (pending = <<>> /\ lastEvent.kind \in {"fulfilled", "rejected"})
    => (translationError # NullError <=> lastEvent.kind = "rejected")

(***************************************************************************)
(* Properties of the sentence pairs under interleaving, checked under      *)
(* SpecPairs.                                                              *)
(***************************************************************************)
\* C21: the pairs in state come from one single request: textMappings changes
\* only when a request resolves, and then all of it becomes the pairs of
\* that request's text and that request's response, which is translatedText;
\* otherwise translatedText stays, or becomes the failure marker when an
\* attempt fails.
C21_PairsFromOneRequest ==
    [][IF lastEvent'.kind = "fulfilled"
       THEN \E i \in 1..Len(pending) :
               /\ pending' = Settle(i)
               /\ translatedText' \in AlignTranslations
               /\ textMappings' = mappings(pending[i].text, translatedText')
       ELSE /\ textMappings' = textMappings
            /\ \/ translatedText' = translatedText
               \/ lastEvent'.kind = "rejected" /\ translatedText' = TranslationFailed]_vars

\* The three pairs of one request are in state, whole, although the prompt
\* is another one by now and a later attempt has failed.
C21_PairsSurviveFailure ==
    /\ lastEvent.kind = "rejected"
    /\ translatedText = TranslationFailed
    /\ Len(textMappings) = 3
    /\ textMappings[2].translated # <<>>
    /\ prompt # <<"A", ".", " ", "B", ".", " ", "C", ".">>

(***************************************************************************)
(* Properties of the empty description text, checked under Spec.           *)
(***************************************************************************)
\* C22: an edit whose description text is empty calls handleTranslate with
\* the empty text: no request is issued, and translatedText, textMappings,
\* translationError and isTranslating stay as they were.
C22_EmptyTextChangesNothing ==
    [][(lastEvent'.kind \in EditKinds /\ descriptionText(prompt') = <<>>)
        => /\ pending' = pending
           /\ translatedText' = translatedText
           /\ textMappings' = textMappings
           /\ translationError' = translationError
           /\ isTranslating' = isTranslating]_vars

\* After an edit to a prompt without description text, the sentence pairs and
\* the error of earlier prompts are still in state.
C22_EarlierPairsRemain ==
    /\ lastEvent.kind \in EditKinds
    /\ prompt # <<>>
    /\ descriptionText(prompt) = <<>>
    /\ textMappings # <<>>
    /\ translationError # NullError

====
